---------------------------- MODULE Spec2Model ----------------------------
(***************************************************************************)
(* Model of the GSL dataset builder                                        *)
(* (sign_language_datasets/datasets/gsl/gsl.py).                           *)
(*                                                                         *)
(* Strings are sequences of symbols (one-symbol TLA+ strings): the         *)
(* concatenation f"{a}{b}" is a \o b, and two strings are equal iff their  *)
(* symbol sequences are.  Fixed pieces of text whose inside the code never *)
(* looks at (a URL's base, ".mp4", "_Depth") are one symbol each.          *)
(***************************************************************************)
EXTENDS Naturals, Integers, Sequences, FiniteSets, TLC

(***************************************************************************)
(* Bounds of the model.                                                    *)
(***************************************************************************)
MaxRows == 2
MaxDirs == 2
MaxAnnLen == 3
MaxRegistryLines == 2

(***************************************************************************)
(* Python's None, and text.                                                *)
(***************************************************************************)
None == <<"<None>">>

Whitespace == {" ", "\t"}

RECURSIVE Concat(_)
Concat(ss) == IF ss = <<>> THEN <<>> ELSE Head(ss) \o Concat(Tail(ss))

Range(f) == {f[k] : k \in DOMAIN f}

\* All sequences over S of length at most n.
SeqsUpTo(S, n) == UNION {[1..k -> S] : k \in 0..n}

(***************************************************************************)
(* Module constants and the names _split_generators builds.                *)
(***************************************************************************)
BASE == "https://zenodo.org/records/4756317/files/"
ZIP == ".zip?download=1"

_VIDEOS_URLS_TEMPLATE == <<BASE, "{}", ZIP>>

_DEPTH_URLS_TEMPLATE == <<BASE, "{}", "_Depth", ZIP>>

\* template.format(arg): the placeholder replaced by the argument's text.
Format(template, arg) ==
    Concat([k \in 1..Len(template) |->
              IF template[k] = "{}" THEN arg ELSE <<template[k]>>])

Prefixes == <<"health", "kep", "police">>

NumInstances == 5

\* str(i) for the indices of range(1, 6)
Str(i) == <<CASE i = 1 -> "1" [] i = 2 -> "2" [] i = 3 -> "3" [] i = 4 -> "4"
              [] i = 5 -> "5" [] OTHER -> "?">>

\* [f"{prefix}{i}" for prefix in [...] for i in range(1, 6)]
video_names ==
    [k \in 1..(Len(Prefixes) * NumInstances) |->
        <<Prefixes[((k - 1) \div NumInstances) + 1]>>
            \o Str(((k - 1) % NumInstances) + 1)]

\* [f"{name}_Depth" for name in video_names]
depth_names == [k \in DOMAIN video_names |-> video_names[k] \o <<"_Depth">>]

video_urls == [k \in DOMAIN video_names |-> Format(_VIDEOS_URLS_TEMPLATE, video_names[k])]

depth_urls == [k \in DOMAIN depth_names |-> Format(_DEPTH_URLS_TEMPLATE, depth_names[k])]

Splits == {"GSL-SD-train", "GSL-SD-val", "GSL-SD-test"}

(***************************************************************************)
(* The file system: directories of extracted archives, and their entries.  *)
(***************************************************************************)
\* pathlib: the entry `name` of directory `dir`
Path(dir, name) == [dir |-> dir, name |-> name]

\* paths.iterdir(): one path per entry of the directory
IterDir(d) == {Path(d.name, n) : n \in d.entries}

(***************************************************************************)
(* csv.DictReader over a file whose first row is the header.               *)
(***************************************************************************)
Header == <<"video_id", "signer", "sentence", "translation", "annotation", "instance">>

\* One data row as DictReader returns it: a missing field is None (restval),
\* the fields beyond the header are kept under the key None (restkey).
DictRow(fields) ==
    [col \in Range(Header) |->
        LET k == CHOOSE j \in DOMAIN Header : Header[j] = col
        IN  IF k <= Len(fields) THEN fields[k] ELSE None]
    @@ [rest |-> IF Len(fields) > Len(Header)
                 THEN SubSeq(fields, Len(Header) + 1, Len(fields)) ELSE <<>>]

\* a reader that keeps one row per video_id
DictReaderDedup(rows) ==
    LET kept == SelectSeq(rows, LAMBDA r : r # <<>>)
        firsts == {k \in DOMAIN kept : \A j \in 1..(k - 1) : kept[j][1] # kept[k][1]}
        RECURSIVE Pick(_)
        Pick(k) == IF k > Len(kept) THEN <<>>
                   ELSE (IF k \in firsts THEN <<DictRow(kept[k])>> ELSE <<>>) \o Pick(k + 1)
    IN  Pick(1)

\* list(csv.DictReader(f)): rows without any field (blank lines) are skipped.
DictReader(rows) ==
    LET kept == SelectSeq(rows, LAMBDA r : r # <<>>)
    IN  [k \in DOMAIN kept |-> DictRow(kept[k])]

(***************************************************************************)
(* str.split() and int().                                                  *)
(***************************************************************************)
RECURSIVE SplitFrom(_, _, _)
SplitFrom(s, cur, acc) ==
    IF s = <<>> THEN (IF cur = <<>> THEN acc ELSE Append(acc, cur))
    ELSE IF Head(s) \in Whitespace
         THEN SplitFrom(Tail(s), <<>>, IF cur = <<>> THEN acc ELSE Append(acc, cur))
         ELSE SplitFrom(Tail(s), Append(cur, Head(s)), acc)

\* s.split(" "): every single blank ends a token, empty tokens are kept
RECURSIVE SplitEachFrom(_, _, _)
SplitEachFrom(s, cur, acc) ==
    IF s = <<>> THEN Append(acc, cur)
    ELSE IF Head(s) \in Whitespace
         THEN SplitEachFrom(Tail(s), <<>>, Append(acc, cur))
         ELSE SplitEachFrom(Tail(s), Append(cur, Head(s)), acc)

SplitKeepsEmpty(s) == SplitEachFrom(s, <<>>, <<>>)

\* s.split(): the maximal runs of non-whitespace symbols, in order
Split(s) == SplitFrom(s, <<>>, <<>>)

Digits == {"0", "1", "2", "3", "4", "5", "6", "7", "8", "9"}

DigitVal(c) == CASE c = "0" -> 0 [] c = "1" -> 1 [] c = "2" -> 2 [] c = "3" -> 3
                 [] c = "4" -> 4 [] c = "5" -> 5 [] c = "6" -> 6 [] c = "7" -> 7
                 [] c = "8" -> 8 [] c = "9" -> 9 [] OTHER -> 0

\* s.strip()
RECURSIVE LStrip(_)
LStrip(s) == IF s # <<>> /\ Head(s) \in Whitespace THEN LStrip(Tail(s)) ELSE s

RECURSIVE RStrip(_)
RStrip(s) == IF s # <<>> /\ s[Len(s)] \in Whitespace
             THEN RStrip(SubSeq(s, 1, Len(s) - 1)) ELSE s

Strip(s) == RStrip(LStrip(s))

RECURSIVE DigitsVal(_)
DigitsVal(ds) == IF ds = <<>> THEN 0
                 ELSE 10 * DigitsVal(SubSeq(ds, 1, Len(ds) - 1)) + DigitVal(ds[Len(ds)])

\* an int() that reads text that is no integer as 0
IntOfLenient(x) ==
    IF x = None THEN [ok |-> FALSE, err |-> "TypeError"]
    ELSE LET ds == SelectSeq(x, LAMBDA c : c \in Digits)
         IN  [ok |-> TRUE, val |-> DigitsVal(ds)]

\* int(x): None is a TypeError, text that is no integer literal a ValueError
IntOf(x) ==
    IF x = None THEN [ok |-> FALSE, err |-> "TypeError"]
    ELSE LET t == Strip(x)
             signed == t # <<>> /\ Head(t) \in {"+", "-"}
             ds == IF signed THEN Tail(t) ELSE t
         IN  IF ds # <<>> /\ \A k \in DOMAIN ds : ds[k] \in Digits
             THEN [ok |-> TRUE,
                   val |-> IF signed /\ Head(t) = "-" THEN 0 - DigitsVal(ds) ELSE DigitsVal(ds)]
             ELSE [ok |-> FALSE, err |-> "ValueError"]

(***************************************************************************)
(* One iteration of the loop of _generate_examples.                        *)
(***************************************************************************)
\* [path for paths in dirs for path in paths.iterdir() if path.name == filename]
Matches(dirs, filename) ==
    LET holding == SelectSeq(dirs, LAMBDA d : Path(d.name, filename) \in IterDir(d))
    IN  [k \in DOMAIN holding |-> Path(holding[k].name, filename)]

MatchesLast(dirs, filename) ==
    LET m == Matches(dirs, filename)
    IN  IF m = <<>> THEN m ELSE <<m[Len(m)]>>

\* a lookup that searches only the archive the file name starts with
MatchesOwnArchive(dirs, filename) ==
    Matches(SelectSeq(dirs, LAMBDA d : SubSeq(d.name, 1, 2) = SubSeq(filename, 1, 2)),
            filename)

Lookup(dirs, filename) == Matches(dirs, filename)

ExampleKeyedBySigner(row, video_path, depth_path, glosses, instance) ==
    [key |-> row["signer"],
     record |-> [id |-> row["video_id"], signer |-> row["signer"],
                 sentence |-> [id |-> row["sentence"], text |-> row["translation"],
                               glosses |-> glosses],
                 instance |-> instance, video |-> video_path, depth_video |-> depth_path]]

\* the pair yielded for a row
Example(row, video_path, depth_path, glosses, instance) ==
    [key |-> row["video_id"],
     record |-> [id |-> row["video_id"], signer |-> row["signer"],
                 sentence |-> [id |-> row["sentence"], text |-> row["translation"],
                               glosses |-> glosses],
                 instance |-> instance, video |-> video_path, depth_video |-> depth_path]]

\* The body of the loop for one row: the pair it yields, or the error it raises.
RowResult(row, video_paths, depth_paths) ==
    LET video_id == row["video_id"]
        video_filename == video_id \o <<".mp4">>
        depth_filename == video_id \o <<".mp4">>
        vs == Lookup(video_paths, video_filename)
        ds == Lookup(depth_paths, depth_filename)
        instance == IntOf(row["instance"])
    IN  IF vs = <<>> \/ ds = <<>> THEN [ok |-> FALSE, err |-> "IndexError"]
        ELSE IF row["annotation"] = None THEN [ok |-> FALSE, err |-> "AttributeError"]
        ELSE IF ~instance.ok THEN [ok |-> FALSE, err |-> instance.err]
        ELSE [ok |-> TRUE,
              pair |-> Example(row, vs[1], ds[1], Split(row["annotation"]), instance.val)]


(***************************************************************************)
(* _get_url_infos: the checksum file, one line per URL, as its columns     *)
(* (line.strip().split('\t')).                                             *)
(***************************************************************************)
UrlInfo(checksum) == [size |-> None, checksum |-> checksum, filename |-> None]

\* url_infos[url] = info on a dict that keeps its insertion order
DictSet(d, url, info) ==
    IF \E k \in DOMAIN d : d[k].url = url
    THEN [k \in DOMAIN d |-> IF d[k].url = url THEN [url |-> url, info |-> info] ELSE d[k]]
    ELSE Append(d, [url |-> url, info |-> info])

RECURSIVE UrlInfosFrom(_, _, _)
UrlInfosFrom(lines, urls, acc) ==
    IF lines = <<>> THEN acc
    ELSE LET cols == Head(lines)
         IN  UrlInfosFrom(Tail(lines), urls,
                 IF Len(cols) = 3 /\ cols[1] \in Range(urls)
                 THEN DictSet(acc, cols[1], UrlInfo(cols[2]))
                 ELSE acc)

_get_url_infos(lines, urls) == UrlInfosFrom(lines, urls, <<>>)

(***************************************************************************)
(* State.                                                                  *)
(***************************************************************************)
VARIABLES
    pc,             \* where _split_generators stands
    checksums,      \* the lines of the checksum file
    calls,          \* the requests handed to dl_manager.download_and_extract
    download_urls,  \* video_urls + depth_urls, once built
    url_infos,      \* what _get_url_infos returned
    manifests,      \* the {split}.csv files: [exists, rows]
    gen,            \* the generator object of each split
    first_run       \* what an earlier, finished invocation of a generator yielded

vars == <<pc, checksums, calls, download_urls, url_infos, manifests, gen, first_run>>

builder_vars == <<pc, checksums, calls, download_urls, url_infos>>

NotCreated == [st |-> "notcreated", video_paths |-> <<>>, depth_paths |-> <<>>,
               split_data |-> <<>>, i |-> 0, out |-> <<>>, err |-> "" ]

\* self._generate_examples(split, video_files, depth_files, path): a generator
\* object whose body has not started
Created(video_paths, depth_paths) ==
    [NotCreated EXCEPT !.st = "created", !.video_paths = video_paths,
                       !.depth_paths = depth_paths]

NoRun == [done |-> FALSE, st |-> "", out |-> <<>>, err |-> ""]

(***************************************************************************)
(* _generate_examples: one next() of the generator of split s.  The first  *)
(* one opens and reads the whole manifest; each one runs the loop to its   *)
(* next yield, to an error, or to the end of the rows.                     *)
(***************************************************************************)
Raise(g, data, e) == [g EXCEPT !.st = "raised", !.split_data = data, !.err = e]

SkipRow(g, data, e) == [g EXCEPT !.st = "running", !.split_data = data, !.i = g.i + 1]

\* what an error raised in the loop body does to the generator
RaiseInLoop(g, data, e) == Raise(g, data, e)

GenNext(s) ==
    /\ gen[s].st \in {"created", "running"}
    /\ LET g == gen[s]
           opening == g.st = "created"
       IN  IF opening /\ ~manifests[s].exists
           THEN gen' = [gen EXCEPT ![s] = Raise(g, <<>>, "FileNotFoundError")]
           ELSE LET data == IF opening THEN DictReader(manifests[s].rows) ELSE g.split_data
                    i == g.i + 1
                IN  IF i > Len(data)
                    THEN gen' = [gen EXCEPT ![s] = [g EXCEPT !.st = "exhausted",
                                                             !.split_data = data]]
                    ELSE LET r == RowResult(data[i], g.video_paths, g.depth_paths)
                         IN  IF r.ok
                             THEN gen' = [gen EXCEPT ![s] =
                                            [g EXCEPT !.st = "running", !.split_data = data,
                                                      !.i = i, !.out = Append(g.out, r.pair)]]
                             ELSE gen' = [gen EXCEPT ![s] = RaiseInLoop(g, data, r.err)]
    /\ UNCHANGED <<builder_vars, manifests, first_run>>

\* A second call of _generate_examples with the same arguments, after the
\* first generator has finished.
Reinvoke(s) ==
    /\ gen[s].st \in {"exhausted", "raised"}
    /\ ~first_run.done
    /\ first_run' = [done |-> TRUE, st |-> gen[s].st, out |-> gen[s].out, err |-> gen[s].err]
    /\ gen' = [gen EXCEPT ![s] = Created(gen[s].video_paths, gen[s].depth_paths)]
    /\ UNCHANGED <<builder_vars, manifests>>


(***************************************************************************)
(* _split_generators.                                                      *)
(***************************************************************************)
supplementary_urls ==
    << <<BASE, "supplementary", ZIP>>, <<BASE, "GSL_split", ZIP>> >>

\* The video files every extracted archive of the model holds.
VideoIds == {<<"health", "1", "_", "a">>, <<"health", "2", "_", "a">>}

FileNames == {id \o <<".mp4">> : id \in VideoIds}

\* The names the download collaborator may give the directories it returns.
SupplementaryNames == {<<"supplementary">>, <<"GSL_split">>}

ArchiveNames == {video_names[1], depth_names[1], <<"extracted">>}

\* [file for file in files if file.name in names]
FilesNamed(files, names) == SelectSeq(files, LAMBDA f : f.name \in Range(names))

\* one call of dl_manager.download_and_extract: what it was handed, and
\* whether it raised instead of returning
Call(urls, raised) == [urls |-> urls, outcome |-> IF raised THEN "raised" ELSE "returned"]

\* lines 75-84: the supplementary archives are fetched, GSL_split is picked.
SupplementaryDownload ==
    /\ pc = "start"
    /\ \E raised \in BOOLEAN :
       \E names \in [DOMAIN supplementary_urls -> SupplementaryNames] :
          LET supplementary_files == [k \in DOMAIN names |-> [name |-> names[k]]]
              found == SelectSeq(supplementary_files, LAMBDA f : f.name = <<"GSL_split">>)
          IN  /\ calls' = Append(calls, Call(supplementary_urls, raised))
              /\ pc' = IF raised \/ found = <<>> THEN "failed" ELSE "supplementary"
    /\ UNCHANGED <<checksums, download_urls, url_infos, manifests, gen, first_run>>

\* lines 86-93: the names and URLs are built, the checksum file is read.
ResolveUrlInfos ==
    /\ pc = "supplementary"
    /\ download_urls' = video_urls \o depth_urls
    /\ \E readable \in BOOLEAN :
          IF readable
          THEN /\ url_infos' = _get_url_infos(checksums, download_urls')
               /\ pc' = "resolved"
          ELSE /\ url_infos' = url_infos
               /\ pc' = "failed"
    /\ UNCHANGED <<checksums, calls, manifests, gen, first_run>>

\* line 99-102: one generator object per split, none of them started
Generators(video_files, depth_files) ==
    [s \in Splits |-> Created(video_files, depth_files)]

\* the generators that exist while _split_generators has not returned: none
NoGenerators == [s \in Splits |-> NotCreated]

\* a builder that catches what the download raises and goes on without files
ReturnSwallowing(raised, unnamed, video_files, depth_files) ==
    IF unnamed
    THEN [pc |-> "failed", gen |-> NoGenerators]
    ELSE [pc |-> "returned",
          gen |-> IF raised THEN Generators(<<>>, <<>>)
                  ELSE Generators(video_files, depth_files)]

\* lines 94-102 after the call: an exception of the call, or of file.name on
\* what it returned, leaves _split_generators; otherwise the generators are
\* returned.
Return(raised, unnamed, video_files, depth_files) ==
    IF raised \/ unnamed
    THEN [pc |-> "failed", gen |-> NoGenerators]
    ELSE [pc |-> "returned", gen |-> Generators(video_files, depth_files)]

\* lines 94-102: the archives are fetched, told apart by name, and the
\* generators are returned.  The collaborator raises, or returns one
\* directory per entry of url_infos as a list, or a mapping keyed like
\* url_infos: iterating that yields the URLs, text without a .name.
ArchivesDownload ==
    /\ pc = "resolved"
    /\ \E outcome \in {"raises", "list", "dict"} :
       \E names \in [DOMAIN url_infos -> ArchiveNames] :
          LET downloaded_files ==
                  IF outcome = "list"
                  THEN [k \in DOMAIN names |-> [name |-> names[k], entries |-> FileNames]]
                  ELSE <<>>
              video_files == FilesNamed(downloaded_files, video_names)
              depth_files == FilesNamed(downloaded_files, depth_names)
              r == Return(outcome = "raises", outcome = "dict" /\ url_infos # <<>>,
                          video_files, depth_files)
          IN  /\ calls' = Append(calls, Call(url_infos, outcome = "raises"))
              /\ pc' = r.pc
              /\ gen' = r.gen
    /\ UNCHANGED <<checksums, download_urls, url_infos, manifests, first_run>>

(***************************************************************************)
(* Inputs.                                                                 *)
(***************************************************************************)
WellFormed(id, annotation, instance) ==
    <<id, <<"signer1">>, <<"s7">>, <<"hello">>, annotation, instance>>

DefaultAnnotation == <<"A", " ", "B">>

DefaultRow(id) == WellFormed(id, DefaultAnnotation, <<"3">>)

File(rows) == [exists |-> TRUE, rows |-> rows]

NoFile == [exists |-> FALSE, rows |-> <<>>]

\* Lines of the checksum file.  depth_urls[1] is the URL the code builds for
\* health1's depth archive; the line before it holds that archive's URL with
\* one _Depth.
RegistryLines ==
    { <<video_urls[1], <<"abc123">>, <<"10">>>>,
      <<video_urls[1], <<"fff999">>, <<"10">>>>,
      <<video_urls[1], <<"abc123">>>>,
      <<Format(_DEPTH_URLS_TEMPLATE, video_names[1]), <<"d0">>, <<"10">>>>,
      <<depth_urls[1], <<"d1">>, <<"10">>>>,
      <<supplementary_urls[2], <<"s0">>, <<"10">>>> }

BuildManifests ==
    [s \in Splits |->
        CASE s = "GSL-SD-train" -> File(<<DefaultRow(<<"health", "1", "_", "a">>),
                                          DefaultRow(<<"health", "2", "_", "a">>)>>)
          [] s = "GSL-SD-val" -> File(<<DefaultRow(<<"health", "1", "_", "a">>)>>)
          [] OTHER -> File(<<>>)]

\* A build: the checksum file is any file of at most MaxRegistryLines lines.
Init ==
    /\ pc = "start"
    /\ checksums \in SeqsUpTo(RegistryLines, MaxRegistryLines)
    /\ calls = <<>>
    /\ download_urls = <<>>
    /\ url_infos = <<>>
    /\ manifests = BuildManifests
    /\ gen = NoGenerators
    /\ first_run = NoRun

Next ==
    \/ SupplementaryDownload
    \/ ResolveUrlInfos
    \/ ArchivesDownload
    \/ \E s \in Splits : GenNext(s)

Spec == Init /\ [][Next]_vars


(***************************************************************************)
(* _generate_examples called on its own, on any manifest and any resolved  *)
(* directories, and called again once it has finished.                     *)
(***************************************************************************)
\* Lists of at most MaxDirs directories, the k-th named names[k], each
\* holding any of the files.
DirLists(names) ==
    UNION {{[k \in 1..n |-> [name |-> names[k], entries |-> e[k]]] :
               e \in [1..n -> SUBSET FileNames]} : n \in 0..MaxDirs}

\* Every file in the archive its name starts with.
OwnDirs(names) ==
    [k \in 1..2 |-> [name |-> names[k],
                     entries |-> {f \in FileNames : SubSeq(f, 1, 2) = SubSeq(names[k], 1, 2)}]]

AnnSymbols == {"A", "B", " ", "\t"}

Instances == {<<"3">>, <<" ", "1", "2">>, <<"-", "4">>, <<"x">>, <<>>, <<"1", ".", "5">>}

\* Rows as csv.reader returns them: of six fields, of fewer (a blank line has
\* none), and of more.
ParseRows ==
    {WellFormed(<<"health", "1", "_", "a">>, DefaultAnnotation, n) : n \in Instances}
    \cup {SubSeq(DefaultRow(<<"health", "2", "_", "a">>), 1, n) : n \in 0..6}
    \cup {DefaultRow(<<"health", "1", "_", "a">>) \o <<<<"extra">>>>,
          WellFormed(<<"health", "2", "_", "a">>, DefaultAnnotation, <<"x">>)
              \o <<<<"7">>>>}

\* Any directories, under manifests of as many rows as there are video ids.
InitLookup ==
    /\ \E rows \in SeqsUpTo({DefaultRow(id) : id \in VideoIds}, Cardinality(VideoIds)) :
          manifests = [s \in Splits |-> File(rows)]
    /\ \E vp \in DirLists(video_names), dp \in DirLists(depth_names) :
          gen = [NoGenerators EXCEPT !["GSL-SD-train"] = Created(vp, dp)]

InitParse ==
    /\ \/ \E rows \in SeqsUpTo(ParseRows, MaxRows) :
             manifests = [s \in Splits |-> File(rows)]
       \/ manifests = [s \in Splits |-> NoFile]
    /\ gen = [NoGenerators EXCEPT !["GSL-SD-train"] =
                 Created(OwnDirs(video_names), OwnDirs(depth_names))]

InitSplit ==
    /\ \E a \in SeqsUpTo(AnnSymbols, MaxAnnLen) :
          manifests = [s \in Splits |->
                          File(<<WellFormed(<<"health", "1", "_", "a">>, a, <<"3">>)>>)]
    /\ gen = [NoGenerators EXCEPT !["GSL-SD-train"] =
                 Created(OwnDirs(video_names), OwnDirs(depth_names))]

InitGen ==
    /\ pc = "none"
    /\ checksums = <<>>
    /\ calls = <<>>
    /\ download_urls = <<>>
    /\ url_infos = <<>>
    /\ first_run = NoRun
    /\ (InitLookup \/ InitParse \/ InitSplit)

NextGen == \E s \in Splits : GenNext(s) \/ Reinvoke(s)

SpecGen == InitGen /\ [][NextGen]_vars


(***************************************************************************)
(* Vocabulary of the properties, stated on the inputs alone.               *)
(***************************************************************************)
Min(S) == CHOOSE m \in S : \A n \in S : m <= n

\* the rows csv.reader returns that are not blank lines, as lists of fields
NonBlank(s) == SelectSeq(manifests[s].rows, LAMBDA r : r # <<>>)

\* the directories of a list that hold the file {id}.mp4
HeldBy(dirs, id) == {k \in DOMAIN dirs : (id \o <<".mp4">>) \in dirs[k].entries}

FoundRow(g, fields) ==
    HeldBy(g.video_paths, fields[1]) # {} /\ HeldBy(g.depth_paths, fields[1]) # {}

IsDigits(x) == x # <<>> /\ \A k \in DOMAIN x : x[k] \in Digits

\* text Python reads as an integer: blanks, an optional sign, digits, blanks
IsIntegerText(x) ==
    \E lo \in DOMAIN x : \E hi \in lo..Len(x) :
       /\ \A k \in 1..(lo - 1) : x[k] \in Whitespace
       /\ \A k \in (hi + 1)..Len(x) : x[k] \in Whitespace
       /\ \/ IsDigits(SubSeq(x, lo, hi))
          \/ x[lo] \in {"+", "-"} /\ IsDigits(SubSeq(x, lo + 1, hi))

SixFields(fields) == Len(fields) = Len(Header)

WellFormedRow(fields) == SixFields(fields) /\ IsIntegerText(fields[6])

\* the archive a video_id names: its text before the first underscore
RECURSIVE ArchiveOf(_)
ArchiveOf(id) == IF id = <<>> \/ Head(id) = "_" THEN <<>>
                 ELSE <<Head(id)>> \o ArchiveOf(Tail(id))

DirNamesOf(dirs) == {dirs[k].name : k \in DOMAIN dirs}

\* every row of the manifest of s has six fields, an integer instance, and
\* its file in some video directory and some depth directory of g
AllRowsGood(s) ==
    /\ manifests[s].exists
    /\ \A k \in DOMAIN manifests[s].rows :
          WellFormedRow(manifests[s].rows[k]) /\ FoundRow(gen[s], manifests[s].rows[k])

\* the lines of the checksum file that are an entry for a URL
EntriesOf(url) ==
    {k \in DOMAIN checksums : Len(checksums[k]) = 3 /\ checksums[k][1] = url}

C4_LookupFailureIsFatal ==
    \A s \in Splits :
       LET g == gen[s]
           data == NonBlank(s)
       IN  g.st # "notcreated" =>
             \A i \in DOMAIN data :
                ~FoundRow(g, data[i]) =>
                   /\ Len(g.out) < i
                   /\ g.st # "exhausted"
                   /\ (g.st = "raised" /\ Len(g.out) = i - 1) => g.err = "IndexError"

C4_Witness ==
    \E s \in Splits :
       /\ gen[s].st = "raised"
       /\ gen[s].err = "IndexError"
       /\ Len(gen[s].out) = 1
       /\ Len(NonBlank(s)) = 2
       /\ ~FoundRow(gen[s], NonBlank(s)[2])

(***************************************************************************)
(* C5 as stated: every emitted row's archive (from its video_id) names     *)
(* exactly one video directory and one depth directory, its files come     *)
(* from those, and are found in exactly one directory of each kind.        *)
(***************************************************************************)
C5_Original ==
    \A s \in Splits :
       LET g == gen[s]
       IN  \A j \in DOMAIN g.out :
              LET id == g.out[j].key
                  arch == ArchiveOf(id)
              IN  /\ Cardinality({k \in DOMAIN g.video_paths :
                                     g.video_paths[k].name = arch}) = 1
                  /\ Cardinality({k \in DOMAIN g.depth_paths :
                                     g.depth_paths[k].name = arch \o <<"_Depth">>}) = 1
                  /\ g.out[j].record.video.dir = arch
                  /\ g.out[j].record.depth_video.dir = arch \o <<"_Depth">>
                  /\ Cardinality(HeldBy(g.video_paths, id)) = 1
                  /\ Cardinality(HeldBy(g.depth_paths, id)) = 1

(***************************************************************************)
(* C5 amended: no scenario prefix is derived.  A row is emitted only if    *)
(* its file is held by at least one video directory and at least one depth *)
(* directory, whatever their names and however many hold it, and its paths *)
(* lie in directories that hold it; the lookup error is raised only at a   *)
(* row whose file no video directory or no depth directory holds.          *)
(***************************************************************************)
C5_Amended ==
    \A s \in Splits :
       LET g == gen[s]
           data == NonBlank(s)
       IN  g.st # "notcreated" =>
             \A i \in DOMAIN data :
                /\ i <= Len(g.out) =>
                      /\ FoundRow(g, data[i])
                      /\ \E k \in HeldBy(g.video_paths, data[i][1]) :
                            g.out[i].record.video.dir = g.video_paths[k].name
                      /\ \E k \in HeldBy(g.depth_paths, data[i][1]) :
                            g.out[i].record.depth_video.dir = g.depth_paths[k].name
                /\ (g.st = "raised" /\ g.err = "IndexError" /\ Len(g.out) = i - 1)
                      => ~FoundRow(g, data[i])

C5_Witness ==
    \E s \in Splits :
       \E j \in DOMAIN gen[s].out :
          /\ gen[s].out[j].record.video.dir # ArchiveOf(gen[s].out[j].key)
          /\ Cardinality(HeldBy(gen[s].depth_paths, gen[s].out[j].key)) = 2


(***************************************************************************)
(* C6 as stated: no run of the generator yields two pairs with one key.    *)
(***************************************************************************)
C6_Original ==
    \A s \in Splits :
       \A a, b \in DOMAIN gen[s].out :
          a # b => gen[s].out[a].key # gen[s].out[b].key

(***************************************************************************)
(* C6 amended: the generator does not look for duplicate keys.  When two   *)
(* rows of a manifest whose rows all resolve carry one video_id, it yields *)
(* a pair for each of them, both keyed by that video_id, and raises        *)
(* nothing; the errors it can stop with are those of the file, the lookup  *)
(* and the parse.                                                          *)
(***************************************************************************)
C6_Amended ==
    \A s \in Splits :
       LET g == gen[s]
           rows == manifests[s].rows
       IN  /\ g.st = "raised" =>
                g.err \in {"FileNotFoundError", "IndexError", "AttributeError",
                           "TypeError", "ValueError"}
           /\ (g.st # "notcreated" /\ AllRowsGood(s)) =>
                \A a, b \in DOMAIN rows :
                   (a < b /\ rows[a][1] = rows[b][1]) =>
                      /\ g.st # "raised"
                      /\ g.st = "exhausted" =>
                            /\ Len(g.out) = Len(rows)
                            /\ g.out[a].key = rows[a][1]
                            /\ g.out[b].key = rows[a][1]

C6_Witness ==
    \E s \in Splits :
       /\ gen[s].st = "exhausted"
       /\ Len(gen[s].out) = 2
       /\ gen[s].out[1].key = gen[s].out[2].key

C8_GlossesAreTheTokens ==
    \A s \in Splits :
       \A j \in DOMAIN gen[s].out :
          LET a == NonBlank(s)[j][5]
              glosses == gen[s].out[j].record.sentence.glosses
              starts == {k \in DOMAIN a :
                            a[k] \notin Whitespace /\ (k = 1 \/ a[k - 1] \in Whitespace)}
          IN  /\ \A k \in DOMAIN glosses :
                    glosses[k] # <<>> /\ \A m \in DOMAIN glosses[k] :
                                            glosses[k][m] \notin Whitespace
              /\ Concat(glosses) = SelectSeq(a, LAMBDA c : c \notin Whitespace)
              /\ Len(glosses) = Cardinality(starts)

C8_Witness ==
    \E s \in Splits :
       \E j \in DOMAIN gen[s].out :
          /\ NonBlank(s)[j][5] = <<"A", "\t", "A">>
          /\ gen[s].out[j].record.sentence.glosses = << <<"A">>, <<"A">> >>

(***************************************************************************)
(* C10: the video path of every emitted record is the entry {id}.mp4 of    *)
(* the first video directory, in list order, that holds an entry of that   *)
(* name, its depth path the same of the depth directories, neither lies in *)
(* a directory of the other kind, and a file held by several directories   *)
(* raises nothing.                                                         *)
(***************************************************************************)
C10_FirstDirectoryWins ==
    \A s \in Splits :
       LET g == gen[s]
           data == NonBlank(s)
       IN  /\ \A j \in DOMAIN g.out :
                LET r == g.out[j].record
                    vk == HeldBy(g.video_paths, r.id)
                    dk == HeldBy(g.depth_paths, r.id)
                IN  /\ vk # {} /\ dk # {}
                    /\ r.video = Path(g.video_paths[Min(vk)].name, r.id \o <<".mp4">>)
                    /\ r.depth_video = Path(g.depth_paths[Min(dk)].name, r.id \o <<".mp4">>)
                    /\ r.video.dir \notin DirNamesOf(g.depth_paths)
                    /\ r.depth_video.dir \notin DirNamesOf(g.video_paths)
           /\ (g.st = "raised" /\ g.err = "IndexError") =>
                ~(/\ Cardinality(HeldBy(g.video_paths, data[Len(g.out) + 1][1])) > 1
                  /\ Cardinality(HeldBy(g.depth_paths, data[Len(g.out) + 1][1])) > 1)

C10_Witness ==
    \E s \in Splits :
       \E j \in DOMAIN gen[s].out :
          /\ Cardinality(HeldBy(gen[s].video_paths, gen[s].out[j].key)) = 2
          /\ Cardinality(HeldBy(gen[s].depth_paths, gen[s].out[j].key)) = 2
          /\ gen[s].out[j].record.video.dir = gen[s].video_paths[1].name
          /\ gen[s].out[j].record.depth_video.dir = gen[s].depth_paths[1].name


(***************************************************************************)
(* C2 as stated: once the archives have been asked for, every URL of       *)
(* video_urls + depth_urls is in the request, with the checksum of its     *)
(* line of the checksum file when it has one and with None when it has     *)
(* none.                                                                   *)
(***************************************************************************)
C2_EveryUrlIsRequested ==
    (Len(calls) = 2) =>
       \A u \in Range(download_urls) :
          \E k \in DOMAIN calls[2].urls :
             /\ calls[2].urls[k].url = u
             /\ IF EntriesOf(u) = {}
                THEN calls[2].urls[k].info.checksum = None
                ELSE \E e \in EntriesOf(u) :
                        calls[2].urls[k].info.checksum = checksums[e][2]

(***************************************************************************)
(* C3 as stated: for every scenario and index the video URL is             *)
(* {base}{scenario}{index}.zip, the depth URL {base}{scenario}{index}      *)
(* _Depth.zip with _Depth once, and the depth archive is named             *)
(* {scenario}{index}_Depth.                                                *)
(***************************************************************************)
C3_UrlTemplates ==
    (download_urls # <<>>) =>
       \A p \in DOMAIN Prefixes : \A i \in 1..NumInstances :
          LET k == (p - 1) * NumInstances + i
              n == Len(Prefixes) * NumInstances
          IN  /\ download_urls[k] = <<BASE, Prefixes[p]>> \o Str(i) \o <<ZIP>>
              /\ download_urls[n + k] = <<BASE, Prefixes[p]>> \o Str(i) \o <<"_Depth", ZIP>>
              /\ depth_names[k] = <<Prefixes[p]>> \o Str(i) \o <<"_Depth">>

=============================================================================
